---- MODULE Spec2Model ----
(***************************************************************************)
(* A model of app.py, the Fortune 500 Data Explorer: the CSV loader        *)
(* (load_data) and the six tabs the script runs top to bottom.             *)
(*                                                                         *)
(* Text is a sequence of one-character strings, so that stripping,         *)
(* comma removal and number parsing are computed character by character.   *)
(* A cell value of a DataFrame is a record [k, s, n, d]:                    *)
(*   k = "str"  a string s                                                 *)
(*   k = "num"  the number n/d (d > 0, lowest terms)                       *)
(*   k = "nan"  a missing value (NaN)                                      *)
(*   k = "inf" / "ninf"  the floating point infinities                     *)
(*   k = "rgb"  a colour [255-n, n, 0]                                     *)
(* The columns CITY, ADDRESS, WEBSITE, LATITUDE and LONGITUDE are carried  *)
(* by the program unchanged and no step computes with them; they are not   *)
(* represented.                                                            *)
(***************************************************************************)
EXTENDS Integers, Sequences, FiniteSets, TLC

VARIABLES
    csv,               \* the input file: [exists, header, rows]
    pc,                \* the script's position
    exc,               \* the uncaught exception that halted the script, or "none"
    surfaced,          \* the messages shown with st.error / st.warning
    df,                \* the global DataFrame
    overview,          \* tab1: the summary cards and the financial overview
    state_aggregates,  \* tab2
    filtered_df,       \* tab3
    comparison_df,     \* tab4
    insights,          \* tab5: metric, threshold, filtered_insights, ...
    exported           \* tab6: the table written to the download buffer

vars == <<csv, pc, exc, surfaced, df, overview, state_aggregates, filtered_df,
          comparison_df, insights, exported>>

(***************************************************************************)
(* Column names and other literals of the script                          *)
(***************************************************************************)
NAME == <<"N", "A", "M", "E">>
STATE_ == <<"S", "T", "A", "T", "E">>
REVENUES == <<"R", "E", "V", "E", "N", "U", "E", "S">>
PROFIT == <<"P", "R", "O", "F", "I", "T">>
EMPLOYEES == <<"E", "M", "P", "L", "O", "Y", "E", "E", "S">>
REVENUE_PER_EMPLOYEE == <<"R", "P", "E">>
COLOR == <<"C", "O", "L", "O", "R">>

(***************************************************************************)
(* Cell values                                                             *)
(***************************************************************************)
Abs(x) == IF x < 0 THEN -x ELSE x

RECURSIVE GCD(_, _)
GCD(a, b) == IF b = 0 THEN a ELSE GCD(b, a % b)

Str(t) == [k |-> "str", s |-> t, n |-> 0, d |-> 1]
NaN == [k |-> "nan", s |-> <<>>, n |-> 0, d |-> 1]
Inf == [k |-> "inf", s |-> <<>>, n |-> 0, d |-> 1]
NegInf == [k |-> "ninf", s |-> <<>>, n |-> 0, d |-> 1]
\* the number n/d, d # 0, in lowest terms with a positive denominator
Num(n, d) ==
    LET g == GCD(Abs(n), Abs(d))
        sg == IF d < 0 THEN -1 ELSE 1
    IN [k |-> "num", s |-> <<>>, n |-> sg * (n \div g), d |-> Abs(d) \div g]
Zero == Num(0, 1)
Green == [k |-> "rgb", s |-> <<>>, n |-> 255, d |-> 1]
Red == [k |-> "rgb", s |-> <<>>, n |-> 0, d |-> 1]

IsNum(v) == v.k = "num"
IsNaN(v) == v.k = "nan"

\* a >= b on floats: false as soon as one side is NaN
Geq(a, b) ==
    /\ a.k \in {"num", "inf", "ninf"}
    /\ b.k \in {"num", "inf", "ninf"}
    /\ IF a.k = "num" /\ b.k = "num" THEN a.n * b.d >= b.n * a.d
       ELSE a.k = "inf" \/ b.k = "ninf"
Gt(a, b) == Geq(a, b) /\ ~Geq(b, a)
Add(a, b) == Num(a.n * b.d + b.n * a.d, a.d * b.d)

\* Series / Series, element by element, as numpy divides floats
Div(a, b) ==
    IF ~IsNum(a) \/ ~IsNum(b) THEN NaN
    ELSE IF b.n = 0
         THEN (IF a.n > 0 THEN Inf ELSE IF a.n < 0 THEN NegInf ELSE NaN)
         ELSE Num(a.n * b.d, a.d * b.n)

\* .fillna(0): only a missing value is replaced
FillNa0(v) == IF IsNaN(v) THEN Zero ELSE v

\* int(x): truncation toward zero (x a number)
PyInt(v) == IF v.n >= 0 THEN v.n \div v.d ELSE -((-v.n) \div v.d)

(***************************************************************************)
(* Text                                                                    *)
(***************************************************************************)
Digits == <<"0", "1", "2", "3", "4", "5", "6", "7", "8", "9">>
IsDigit(c) == \E i \in DOMAIN Digits : Digits[i] = c
DigitVal(c) == (CHOOSE i \in DOMAIN Digits : Digits[i] = c) - 1
AllDigits(t) == \A i \in DOMAIN t : IsDigit(t[i])

RECURSIVE NatOf(_)
NatOf(t) == IF t = <<>> THEN 0
            ELSE NatOf(SubSeq(t, 1, Len(t) - 1)) * 10 + DigitVal(t[Len(t)])

RECURSIVE Pow10(_)
Pow10(e) == IF e = 0 THEN 1 ELSE 10 * Pow10(e - 1)

IsSpace(c) == c = " "

RECURSIVE LStrip(_)
LStrip(t) == IF t # <<>> /\ IsSpace(t[1]) THEN LStrip(Tail(t)) ELSE t

RECURSIVE RStrip(_)
RStrip(t) == IF t # <<>> /\ IsSpace(t[Len(t)])
             THEN RStrip(SubSeq(t, 1, Len(t) - 1)) ELSE t

\* str.strip()
Strip(t) == RStrip(LStrip(t))

IsNotComma(c) == c # ","
\* .str.replace(',', '')
RemoveCommas(t) == SelectSeq(t, IsNotComma)

\* digits, optionally followed by "." and digits
ParseUnsigned(t) ==
    LET dots == {i \in DOMAIN t : t[i] = "."}
    IN IF dots = {}
       THEN (IF t # <<>> /\ AllDigits(t) THEN Num(NatOf(t), 1) ELSE NaN)
       ELSE IF Cardinality(dots) = 1
       THEN LET i == CHOOSE j \in dots : TRUE
                ip == SubSeq(t, 1, i - 1)
                fp == SubSeq(t, i + 1, Len(t))
            IN IF ip # <<>> /\ fp # <<>> /\ AllDigits(ip) /\ AllDigits(fp)
               THEN Num(NatOf(ip) * Pow10(Len(fp)) + NatOf(fp), Pow10(Len(fp)))
               ELSE NaN
       ELSE NaN

\* The number a text denotes, NaN when it denotes none (errors='coerce').
ParseNumber(t) ==
    IF t # <<>> /\ t[1] = "-"
    THEN LET u == ParseUnsigned(Tail(t))
         IN IF IsNum(u) THEN Num(-u.n, u.d) ELSE NaN
    ELSE ParseUnsigned(t)

\* pd.to_numeric(..., errors='coerce') of one cell of an object column
ToNumeric(v) == IF v.k = "str" THEN ParseNumber(v.s) ELSE v

\* .str.replace(',', '') of one cell of an object column (NaN stays NaN)
StrReplaceComma(v) == IF v.k = "str" THEN Str(RemoveCommas(v.s)) ELSE v

(***************************************************************************)
(* DataFrames: [columns: a sequence of names, rows: a sequence of          *)
(* functions from the column names to cell values]                         *)
(***************************************************************************)
EmptyFrame == [columns |-> <<>>, rows |-> <<>>]

Range(s) == {s[i] : i \in DOMAIN s}
HasColumn(frame, c) == c \in Range(frame.columns)
Column(frame, c) == [i \in DOMAIN frame.rows |-> frame.rows[i][c]]

\* frame[c] = values, c a new or an existing column
SetColumn(frame, c, values) ==
    [columns |-> IF HasColumn(frame, c) THEN frame.columns
                 ELSE Append(frame.columns, c),
     rows |-> [i \in DOMAIN frame.rows |->
                 [x \in Range(frame.columns) \cup {c} |->
                    IF x = c THEN values[i] ELSE frame.rows[i][x]]]]

\* frame[mask]: a new frame with the rows whose index is in keep
RECURSIVE SelectIdx(_, _, _)
SelectIdx(rows, keep, i) ==
    IF i > Len(rows) THEN <<>>
    ELSE IF i \in keep THEN <<rows[i]>> \o SelectIdx(rows, keep, i + 1)
         ELSE SelectIdx(rows, keep, i + 1)

Mask(frame, keep) ==
    [columns |-> frame.columns, rows |-> SelectIdx(frame.rows, keep, 1)]

\* the texts pandas reads as a missing value (a part of its default list)
NaTokens == {<<>>, <<"N", "/", "A">>, <<"N", "A">>}

\* pd.read_csv: the header as written; a column whose cells all read as
\* numbers or as missing is numeric, any other column keeps its strings
ReadCsv(file) ==
    LET ncol == Len(file.header)
        nrow == Len(file.rows)
        isna(i, j) == file.rows[i][j] \in NaTokens
        numeric(j) == /\ nrow > 0
                      /\ \A i \in 1..nrow :
                           isna(i, j) \/ IsNum(ParseNumber(file.rows[i][j]))
        cell(i, j) == IF isna(i, j) THEN NaN
                      ELSE IF numeric(j) THEN ParseNumber(file.rows[i][j])
                      ELSE Str(file.rows[i][j])
    IN [columns |-> file.header,
        rows |-> [i \in 1..nrow |->
                    [c \in Range(file.header) |->
                       cell(i, CHOOSE j \in 1..ncol : file.header[j] = c)]]]

\* df.columns = df.columns.str.strip()
StripColumns(frame) ==
    [columns |-> [j \in DOMAIN frame.columns |-> Strip(frame.columns[j])],
     rows |-> [i \in DOMAIN frame.rows |->
                 [c \in {Strip(x) : x \in Range(frame.columns)} |->
                    frame.rows[i][CHOOSE x \in Range(frame.columns) : Strip(x) = c]]]]

\* df[c].dtype == 'object'
IsObject(frame, c) ==
    \/ frame.rows = <<>>
    \/ \E i \in DOMAIN frame.rows : frame.rows[i][c].k = "str"

\* one of the three "if c in df and df[c].dtype == 'object'" statements
CleanColumn(frame, c) ==
    IF HasColumn(frame, c) /\ IsObject(frame, c)
    THEN SetColumn(frame, c,
             [i \in DOMAIN frame.rows |->
                FillNa0(ToNumeric(StrReplaceComma(frame.rows[i][c])))])
    ELSE frame

\* (df['REVENUES'] / df['EMPLOYEES']).fillna(0)
RevenuePerEmployee(frame) ==
    [i \in DOMAIN frame.rows |->
       FillNa0(Div(frame.rows[i][REVENUES], frame.rows[i][EMPLOYEES]))]

\* load_data: [df, error]; error is <<>> or the text of the caught exception
load_data(file) ==
    IF ~file.exists
    THEN [df |-> EmptyFrame, error |-> <<"n", "o", " ", "f", "i", "l", "e">>]
    ELSE LET raw == StripColumns(ReadCsv(file))
             cleaned == CleanColumn(CleanColumn(CleanColumn(raw, REVENUES),
                                                PROFIT), EMPLOYEES)
         IN IF ~HasColumn(cleaned, REVENUES)
            THEN [df |-> EmptyFrame, error |-> REVENUES]
            ELSE IF ~HasColumn(cleaned, EMPLOYEES)
            THEN [df |-> EmptyFrame, error |-> EMPLOYEES]
            ELSE [df |-> SetColumn(cleaned, REVENUE_PER_EMPLOYEE,
                                   RevenuePerEmployee(cleaned)),
                  error |-> <<>>]

(***************************************************************************)
(* Series reductions (NaN is skipped, as pandas does by default)           *)
(***************************************************************************)
Numbers(values) == SelectSeq(values, IsNum)

RECURSIVE SumSeq(_)
SumSeq(values) ==
    IF values = <<>> THEN Zero
    ELSE Add(SumSeq(SubSeq(values, 1, Len(values) - 1)), values[Len(values)])

\* Series.sum()
Sum(values) == SumSeq(Numbers(values))

HasNumber(values) == Numbers(values) # <<>>

\* Series.max() / Series.min() of a series that holds a number
Max(values) ==
    LET nums == Numbers(values)
    IN nums[CHOOSE i \in DOMAIN nums : \A j \in DOMAIN nums : Geq(nums[i], nums[j])]
Min(values) ==
    LET nums == Numbers(values)
    IN nums[CHOOSE i \in DOMAIN nums : \A j \in DOMAIN nums : Geq(nums[j], nums[i])]

\* Series.idxmax(): the first position of the maximum
IdxMax(values) ==
    CHOOSE i \in DOMAIN values :
        /\ IsNum(values[i])
        /\ \A j \in DOMAIN values : IsNum(values[j]) => Geq(values[i], values[j])
        /\ \A j \in 1..(i - 1) : ~(IsNum(values[j]) /\ Geq(values[j], values[i]))

\* the numbers of a series in ascending order
RECURSIVE Ascending(_)
Ascending(nums) ==
    IF nums = <<>> THEN <<>>
    ELSE LET i == CHOOSE k \in DOMAIN nums :
                     \A j \in DOMAIN nums : Geq(nums[j], nums[k])
         IN <<nums[i]>> \o
            Ascending(SubSeq(nums, 1, i - 1) \o SubSeq(nums, i + 1, Len(nums)))

\* Series.median() of a series that holds a number
Median(values) ==
    LET a == Ascending(Numbers(values))
        n == Len(a)
    IN IF n % 2 = 1 THEN a[(n + 1) \div 2]
       ELSE LET t == Add(a[n \div 2], a[n \div 2 + 1]) IN Num(t.n, t.d * 2)

\* Series.mean() of a series of numbers
Mean(values) == LET t == Sum(values) IN Num(t.n, t.d * Len(Numbers(values)))

(***************************************************************************)
(* The order of Python strings                                             *)
(***************************************************************************)
Ascii == <<" ", ",", "-", ".", "/",
           "0", "1", "2", "3", "4", "5", "6", "7", "8", "9",
           "A", "B", "C", "D", "E", "F", "G", "H", "I", "J", "K", "L", "M",
           "N", "O", "P", "Q", "R", "S", "T", "U", "V", "W", "X", "Y", "Z",
           "a", "b", "c", "d", "e", "f", "g", "h", "i", "j", "k", "l", "m",
           "n", "o", "p", "q", "r", "s", "t", "u", "v", "w", "x", "y", "z">>
Code(c) == CHOOSE i \in DOMAIN Ascii : Ascii[i] = c

RECURSIVE TextLess(_, _)
TextLess(a, b) ==
    IF b = <<>> THEN FALSE
    ELSE IF a = <<>> THEN TRUE
    ELSE IF a[1] = b[1] THEN TextLess(Tail(a), Tail(b))
    ELSE Code(a[1]) < Code(b[1])

\* sorted(...) of a set of strings
RECURSIVE SortedTexts(_)
SortedTexts(S) ==
    IF S = {} THEN <<>>
    ELSE LET m == CHOOSE x \in S : \A y \in S : x = y \/ TextLess(x.s, y.s)
         IN <<m>> \o SortedTexts(S \ {m})

(***************************************************************************)
(* groupby('STATE')[[...]].sum().reset_index()                             *)
(***************************************************************************)
\* Series.unique(): the distinct values, NaN among them
Unique(values) == Range(values)

\* the group keys: the distinct values, missing ones dropped, sorted
GroupKeys(frame, by) ==
    SortedTexts({v \in Unique(Column(frame, by)) : ~IsNaN(v)})

\* (a grouping that keeps only the first row of each group)
GroupRowsFirstOnly(frame, by, key) ==
    LET members == {i \in DOMAIN frame.rows : frame.rows[i][by] = key}
    IN SelectIdx(frame.rows, {i \in members : \A j \in members : i <= j}, 1)

\* the rows of one group, in frame order
GroupRows(frame, by, key) ==
    SelectIdx(frame.rows, {i \in DOMAIN frame.rows : frame.rows[i][by] = key}, 1)

GroupSum(frame, by, cols) ==
    LET keys == GroupKeys(frame, by)
    IN [columns |-> <<by>> \o cols,
        rows |-> [g \in DOMAIN keys |->
                    [c \in {by} \cup Range(cols) |->
                       IF c = by THEN keys[g]
                       ELSE LET grp == GroupRows(frame, by, keys[g])
                            IN Sum([i \in DOMAIN grp |-> grp[i][c]])]]]

(***************************************************************************)
(* sort_values(by, ascending=False) and nlargest(n, by)                    *)
(***************************************************************************)
\* The default sort of sort_values is not stable: rows with equal keys may
\* come out in any order.  Every descending arrangement of the rows is a
\* possible result.
RECURSIVE DescArrangements(_, _, _)
DescArrangements(rows, by, left) ==
    IF left = {} THEN {<<>>}
    ELSE LET top == {i \in left : \A j \in left : Geq(rows[i][by], rows[j][by])}
         IN UNION {{<<rows[i]>> \o t : t \in DescArrangements(rows, by, left \ {i})}
                   : i \in top}

SortValuesDesc(frame, by) ==
    {[columns |-> frame.columns, rows |-> r] :
        r \in DescArrangements(frame.rows, by, DOMAIN frame.rows)}

\* the stable descending order (mergesort): equal keys keep their order
RECURSIVE StableDesc(_, _, _)
StableDesc(rows, by, left) ==
    IF left = {} THEN <<>>
    ELSE LET i == CHOOSE k \in left :
                     /\ \A j \in left : Geq(rows[k][by], rows[j][by])
                     /\ \A j \in left : Geq(rows[j][by], rows[k][by]) => k <= j
         IN <<rows[i]>> \o StableDesc(rows, by, left \ {i})

\* (a head that does not cut)
HeadAll(rows, n) == rows

\* .head(n) / the first n
HeadN(rows, n) == SubSeq(rows, 1, IF n < Len(rows) THEN n ELSE Len(rows))

\* DataFrame.nlargest(n, by), keep='first', of a frame without NaN keys:
\* with n >= len(frame) it is sort_values(...).head(n), else the first n
\* of the stable descending order
NLargest(frame, n, by) ==
    IF n >= Len(frame.rows)
    THEN {[columns |-> f.columns, rows |-> HeadN(f.rows, n)] :
            f \in SortValuesDesc(frame, by)}
    ELSE {[columns |-> frame.columns,
           rows |-> HeadN(StableDesc(frame.rows, by, DOMAIN frame.rows), n)]}

\* frame[[c1, c2]]
Project(frame, cols) ==
    [columns |-> cols,
     rows |-> [i \in DOMAIN frame.rows |->
                 [c \in Range(cols) |-> frame.rows[i][c]]]]

(***************************************************************************)
(* Widget options and constants of the script                              *)
(***************************************************************************)
AllStates == Str(<<"A", "l", "l", " ", "S", "t", "a", "t", "e", "s">>)
ColorizeOptions == {"None", "Revenues", "Employees", "Profit"}
Metrics == {REVENUES, PROFIT, EMPLOYEES}
ThresholdStep == 1000
TopNMin == 5
TopNMax == 20
TopNDefault == 10
TopRpeCount == 10

ColorizeColumn(colorize_by) ==
    CASE colorize_by = "Revenues" -> REVENUES
      [] colorize_by = "Employees" -> EMPLOYEES
      [] colorize_by = "Profit" -> PROFIT
      [] OTHER -> <<>>

NoOverview == [companies |-> 0, revenue |-> Zero, employees |-> Zero,
               ok |-> FALSE, top_state |-> NaN, top_company |-> NaN]

NoInsights == [metric |-> <<>>, threshold |-> 0, branch |-> "none",
               filtered_insights |-> EmptyFrame, top_company |-> NaN,
               average_metric |-> Zero, top_n |-> 0,
               top_companies |-> EmptyFrame, top_rpe |-> EmptyFrame]

\* an exception nothing catches ends the script run
Halt(e) == exc' = e /\ pc' = "halted"

(***************************************************************************)
(* The script                                                              *)
(***************************************************************************)
\* df = load_data(file_path)
Load ==
    /\ pc = "load"
    /\ LET r == load_data(csv)
       IN /\ df' = r.df
          /\ surfaced' = IF r.error = <<>> THEN surfaced
                         ELSE surfaced \cup {[where |-> "load", text |-> r.error]}
    /\ pc' = "tab1"
    /\ UNCHANGED <<csv, exc, overview, state_aggregates, filtered_df,
                   comparison_df, insights, exported>>

\* the try block of tab1 raises (and the except clause reports it)
OverviewFails(frame) ==
    \/ ~HasColumn(frame, STATE_)
    \/ GroupKeys(frame, STATE_) = <<>>
    \/ ~HasNumber(Column(frame, REVENUES))

Overview(frame) ==
    LET names == Unique(Column(frame, NAME))
        head == [companies |-> Cardinality({v \in names : ~IsNaN(v)}),
                 revenue |-> Sum(Column(frame, REVENUES)),
                 employees |-> Sum(Column(frame, EMPLOYEES))]
    IN IF OverviewFails(frame)
       THEN [companies |-> head.companies, revenue |-> head.revenue,
             employees |-> head.employees,
             ok |-> FALSE, top_state |-> NaN, top_company |-> NaN]
       ELSE LET by_state == GroupSum(frame, STATE_, <<REVENUES>>)
                g == IdxMax(Column(by_state, REVENUES))
                i == IdxMax(Column(frame, REVENUES))
            IN [companies |-> head.companies, revenue |-> head.revenue,
                employees |-> head.employees,
                ok |-> TRUE, top_state |-> by_state.rows[g][STATE_],
                top_company |-> frame.rows[i][NAME]]

\* with tab1: Dashboard Overview
Tab1 ==
    /\ pc = "tab1"
    /\ IF ~HasColumn(df, NAME) \/ ~HasColumn(df, REVENUES) \/ ~HasColumn(df, EMPLOYEES)
       THEN Halt("KeyError") /\ UNCHANGED <<overview, surfaced>>
       ELSE /\ overview' = Overview(df)
            /\ surfaced' = IF OverviewFails(df)
                           THEN surfaced \cup {[where |-> "tab1", text |-> <<>>]}
                           ELSE surfaced
            /\ pc' = "tab2"
            /\ UNCHANGED exc
    /\ UNCHANGED <<csv, df, state_aggregates, filtered_df, comparison_df,
                   insights, exported>>

\* with tab2: State Comparison
Tab2 ==
    /\ pc = "tab2"
    /\ IF \E c \in {STATE_, REVENUES, PROFIT, EMPLOYEES} : ~HasColumn(df, c)
       THEN Halt("KeyError") /\ UNCHANGED state_aggregates
       ELSE /\ state_aggregates' = GroupSum(df, STATE_, <<REVENUES, PROFIT, EMPLOYEES>>)
            /\ pc' = "tab3"
            /\ UNCHANGED exc
    /\ UNCHANGED <<csv, surfaced, df, overview, filtered_df, comparison_df,
                   insights, exported>>

\* sorted(df['STATE'].unique()) compares a missing value (a float) with a string
StateOptionsRaise(frame) ==
    LET u == Unique(Column(frame, STATE_))
    IN (\E v \in u : IsNaN(v)) /\ Cardinality(u) >= 2

\* the benchmark slider runs from int(min) to int(max) and starts at int(median)
BenchmarkOptions(values) ==
    {PyInt(Min(values)), PyInt(Median(values)), PyInt(Max(values))}

\* filtered_df['COLOR'] = ...
Colorize(view, colorize_by, benchmark) ==
    LET col == ColorizeColumn(colorize_by)
    IN SetColumn(view, COLOR,
           [i \in DOMAIN view.rows |->
              IF colorize_by # "None" /\ HasColumn(view, col)
                 /\ Geq(view.rows[i][col], Num(benchmark, 1))
              THEN Green ELSE Red])

\* filtered_df = df if state_filter == "All States" else df[df['STATE'] == state_filter]
StateView(frame, state_filter) ==
    IF state_filter = AllStates THEN frame
    ELSE Mask(frame, {i \in DOMAIN frame.rows :
                        ~IsNaN(state_filter) /\ frame.rows[i][STATE_] = state_filter})

\* with tab3: Company Map.  free: the user may pick any option; otherwise
\* the widgets keep their initial values ("All States", "None").
Tab3(free) ==
    /\ pc = "tab3"
    /\ IF ~HasColumn(df, STATE_)
       THEN Halt("KeyError") /\ UNCHANGED <<df, filtered_df>>
       ELSE IF StateOptionsRaise(df)
       THEN Halt("TypeError") /\ UNCHANGED <<df, filtered_df>>
       ELSE \E state_filter \in
                  (IF free THEN {AllStates} \cup Unique(Column(df, STATE_))
                   ELSE {AllStates}),
               colorize_by \in (IF free THEN ColorizeOptions ELSE {"None"}) :
              LET view == StateView(df, state_filter)
                  col == ColorizeColumn(colorize_by)
                  slider == colorize_by # "None" /\ HasColumn(view, col)
              IN IF slider /\ ~HasNumber(Column(view, col))
                 THEN Halt("ValueError") /\ UNCHANGED <<df, filtered_df>>
                 ELSE \E benchmark \in
                            (IF slider THEN BenchmarkOptions(Column(view, col))
                             ELSE {0}) :
                        /\ filtered_df' = Colorize(view, colorize_by, benchmark)
                        \* "All States": filtered_df is df itself, and the
                        \* assignment adds the column to df
                        /\ df' = IF state_filter = AllStates
                                 THEN Colorize(view, colorize_by, benchmark)
                                 ELSE df
                        /\ pc' = "tab4"
                        /\ UNCHANGED exc
    /\ UNCHANGED <<csv, surfaced, overview, state_aggregates, comparison_df,
                   insights, exported>>

\* with tab4: Company Comparison
Tab4(free) ==
    /\ pc = "tab4"
    /\ IF ~HasColumn(df, NAME)
       THEN Halt("KeyError") /\ UNCHANGED comparison_df
       ELSE \E selected_companies \in
                  (IF free THEN SUBSET Unique(Column(df, NAME)) ELSE {{}}) :
              /\ comparison_df' =
                     Mask(df, {i \in DOMAIN df.rows :
                                 df.rows[i][NAME] \in selected_companies})
              /\ pc' = "tab5"
              /\ UNCHANGED exc
    /\ UNCHANGED <<csv, surfaced, df, overview, state_aggregates, filtered_df,
                   insights, exported>>

\* what evaluating the threshold slider's arguments raises, "none" if nothing
SliderError(frame, metric) ==
    IF ~HasColumn(frame, metric) THEN "KeyError"
    ELSE IF ~HasNumber(Column(frame, metric)) THEN "ValueError"
    ELSE IF PyInt(Max(Column(frame, metric))) < 0
            \/ PyInt(Median(Column(frame, metric))) < 0
         THEN "StreamlitAPIException"
         ELSE "none"

DefaultThreshold(frame, metric) == PyInt(Median(Column(frame, metric)))

\* the slider's positions: 0, step, 2 step, ... up to int(max), and its
\* initial value int(median)
ThresholdOptions(frame, metric) ==
    {k * ThresholdStep :
        k \in 0..(PyInt(Max(Column(frame, metric))) \div ThresholdStep)}
    \cup {DefaultThreshold(frame, metric)}

\* df[df[metric] >= threshold]
AboveThreshold(frame, metric, threshold) ==
    Mask(frame, {i \in DOMAIN frame.rows :
                   Geq(frame.rows[i][metric], Num(threshold, 1))})

\* with tab5: Interactive Insights.  free: the user may pick any threshold
\* and any N; otherwise the sliders keep their initial values.
Tab5(metrics, free) ==
    /\ pc = "tab5"
    /\ \E metric \in metrics :
         IF SliderError(df, metric) # "none"
         THEN /\ Halt(SliderError(df, metric))
              /\ insights' = [insights EXCEPT !.metric = metric]
         ELSE \E threshold \in
                    (IF free THEN ThresholdOptions(df, metric)
                     ELSE {DefaultThreshold(df, metric)}) :
              \E filtered_insights \in
                    SortValuesDesc(AboveThreshold(df, metric, threshold), metric) :
                IF filtered_insights.rows # <<>>
                THEN \E top_n \in (IF free THEN TopNMin..TopNMax ELSE {TopNDefault}) :
                     \E top \in NLargest(filtered_insights, top_n, metric) :
                     \E rpe \in (IF metric = REVENUES
                                 THEN NLargest(filtered_insights, TopRpeCount,
                                               REVENUE_PER_EMPLOYEE)
                                 ELSE {EmptyFrame}) :
                        /\ insights' =
                             [metric |-> metric, threshold |-> threshold,
                              branch |-> "results",
                              filtered_insights |-> filtered_insights,
                              top_company |-> filtered_insights.rows[1][NAME],
                              average_metric |->
                                  Mean(Column(filtered_insights, metric)),
                              top_n |-> top_n,
                              top_companies |-> Project(top, <<NAME, metric>>),
                              top_rpe |->
                                  IF metric = REVENUES
                                  THEN Project(rpe, <<NAME, REVENUE_PER_EMPLOYEE>>)
                                  ELSE EmptyFrame]
                        /\ pc' = "tab6"
                        /\ UNCHANGED exc
                ELSE \* st.warning(... metric_format.format(threshold)):
                     \* metric_format is bound in the other branch only
                     /\ insights' =
                          [NoInsights EXCEPT !.metric = metric,
                                             !.threshold = threshold,
                                             !.branch = "empty",
                                             !.filtered_insights = filtered_insights]
                     /\ Halt("NameError")
    /\ UNCHANGED <<csv, surfaced, df, overview, state_aggregates, filtered_df,
                   comparison_df, exported>>

\* with tab6: Export Data (df.to_csv(buffer, index=False) writes df's table)
Tab6 ==
    /\ pc = "tab6"
    /\ exported' = df
    /\ pc' = "done"
    /\ UNCHANGED <<csv, exc, surfaced, df, overview, state_aggregates,
                   filtered_df, comparison_df, insights>>

(***************************************************************************)
(* Next-state relations: the script runs top to bottom                     *)
(***************************************************************************)
\* every widget free
Next ==
    \/ Load
    \/ Tab1
    \/ Tab2
    \/ Tab3(TRUE)
    \/ Tab4(TRUE)
    \/ Tab5(Metrics, TRUE)
    \/ Tab6

\* every widget at its initial value (the first run of a session)
NextDefault ==
    \/ Load
    \/ Tab1
    \/ Tab2
    \/ Tab3(FALSE)
    \/ Tab4(FALSE)
    \/ Tab5({REVENUES}, FALSE)
    \/ Tab6

\* the widgets of the insights tab free, the others at their initial values
NextInsights ==
    \/ Load
    \/ Tab1
    \/ Tab2
    \/ Tab3(FALSE)
    \/ Tab4(FALSE)
    \/ Tab5(Metrics, TRUE)
    \/ Tab6

(***************************************************************************)
(* Input files                                                             *)
(***************************************************************************)
MaxRows == 2
MaxTopRows == 6

FullHeader == <<NAME, STATE_, REVENUES, PROFIT, EMPLOYEES>>
NoFile == [exists |-> FALSE, header |-> <<>>, rows |-> <<>>]

\* the files with the given header and at most max rows drawn from rowset
Files(header, rowset, max) ==
    {[exists |-> TRUE, header |-> header, rows |-> r] :
        r \in UNION {[1..n -> rowset] : n \in 0..max}}

\* the decimal text of a natural number
RECURSIVE NumText(_)
NumText(n) == IF n < 10 THEN <<Digits[n + 1]>>
              ELSE Append(NumText(n \div 10), Digits[(n % 10) + 1])

\* file without its j-th column
DropColumn(file, j) ==
    LET drop(t) == SubSeq(t, 1, j - 1) \o SubSeq(t, j + 1, Len(t))
    IN [exists |-> TRUE, header |-> drop(file.header),
        rows |-> [i \in DOMAIN file.rows |-> drop(file.rows[i])]]

\* file with blanks around its column names
PadHeader(file) ==
    [file EXCEPT !.header = [j \in DOMAIN file.header |->
                                <<" ">> \o file.header[j] \o <<" ">>]]

NumericRows ==
    {<<(<<"A">>), (<<"C", "A">>), rv, pf, em>> :
        rv \in {<<>>, <<"0">>, <<"1", "0", "0", "0">>, <<"2", ",", "0", "0", "0">>,
                <<"-", "5", "0", "0">>, <<"a", "b", "c">>},
        pf \in {<<"7">>, <<"N", "/", "A">>},
        em \in {<<>>, <<"0">>, <<"1", "0">>, <<"1", ",", "0", "0", "0">>}}

SchemaRows ==
    {<<nm, st, rv, (<<"5">>), (<<"1", "0">>)>> :
        nm \in {<<"A">>, <<"B">>},
        st \in {<<"C", "A">>, <<"N", "Y">>},
        rv \in {<<"1", "0", "0", "0">>, <<"2", ",", "0", "0", "0">>}}

SchemaFiles ==
    LET full == Files(FullHeader, SchemaRows, MaxRows)
    IN full \cup {PadHeader(f) : f \in full}
            \cup {DropColumn(f, j) : f \in full, j \in DOMAIN FullHeader}
            \cup {NoFile}

StateRows ==
    {<<(<<"A">>), st, m[1], m[2], (<<"1", "0">>)>> :
        st \in {<<"C", "A">>, <<"c", "a">>, <<" ", "C", "A", " ">>, <<"N", "Y">>, <<>>},
        m \in {<<(<<"1", "0", "0", "0">>), (<<"7">>)>>,
               <<(<<"2", ",", "0", "0", "0">>), (<<"-", "5", "0", "0">>)>>,
               <<(<<>>), (<<"7">>)>>}}

ViewRows ==
    {<<nm, st, rv, (<<"5">>), (<<"1", "0">>)>> :
        nm \in {<<"A">>, <<"B">>},
        st \in {<<"C", "A">>, <<"N", "Y">>},
        rv \in {<<"1", "0", "0", "0">>}}

\* the i-th row of an insights file; the names descend with the row
\* number ("C8", "C7", ...), so that rows in file order are never in
\* ascending order of NAME
InsightRows(i) ==
    {<<(<<"C">> \o NumText(9 - i)), (<<"C", "A">>), rv, pf, em>> :
        rv \in {<<"1", "0", "0", "0">>, <<"2", ",", "0", "0", "0">>},
        pf \in {<<"-", "0", ".", "5">>, <<"1", "0", "0", "0">>},
        em \in {<<>>, <<"0">>, <<"1", "0", "0", "0">>}}

RECURSIVE InsightRowSeqs(_)
InsightRowSeqs(n) ==
    IF n = 0 THEN {<<>>}
    ELSE {Append(r, x) : r \in InsightRowSeqs(n - 1), x \in InsightRows(n)}

InsightFiles ==
    {[exists |-> TRUE, header |-> FullHeader, rows |-> r] :
        r \in UNION {InsightRowSeqs(n) : n \in 0..MaxRows}}

\* the i-th row of a top-N file: distinct profits and employee counts, and
\* a revenue that an even row may share with an earlier row
TopRows(i) ==
    {<<(<<"C">> \o NumText(i)), (<<"C", "A">>), rv, NumText(i), NumText(i * i)>> :
        rv \in {NumText(i * 1000)} \cup
               (IF i % 2 = 0 THEN {NumText(i \div 2) \o <<",", "0", "0", "0">>}
                ELSE {})}

RECURSIVE TopRowSeqs(_)
TopRowSeqs(n) ==
    IF n = 0 THEN {<<>>}
    ELSE {Append(r, x) : r \in TopRowSeqs(n - 1), x \in TopRows(n)}

TopFiles ==
    {[exists |-> TRUE, header |-> FullHeader, rows |-> r] :
        r \in UNION {TopRowSeqs(n) : n \in 0..MaxTopRows}}

InitWith(files) ==
    /\ csv \in files
    /\ pc = "load"
    /\ exc = "none"
    /\ surfaced = {}
    /\ df = EmptyFrame
    /\ overview = NoOverview
    /\ state_aggregates = EmptyFrame
    /\ filtered_df = EmptyFrame
    /\ comparison_df = EmptyFrame
    /\ insights = NoInsights
    /\ exported = EmptyFrame

Init == InitWith(Files(FullHeader, ViewRows, MaxRows))
InitNumeric == InitWith(Files(FullHeader, NumericRows, MaxRows) \cup {NoFile})
InitSchema == InitWith(SchemaFiles)
InitStates == InitWith(Files(FullHeader, StateRows, MaxRows))
InitInsights == InitWith(InsightFiles)
InitTopN == InitWith(TopFiles)

Spec == Init /\ [][Next]_vars
SpecNumeric == InitNumeric /\ [][NextDefault]_vars
SpecSchema == InitSchema /\ [][NextDefault]_vars
SpecStates == InitStates /\ [][NextDefault]_vars
SpecInsights == InitInsights /\ [][NextInsights]_vars
SpecTopN == InitTopN /\ [][NextInsights]_vars

(***************************************************************************)
(* Properties                                                              *)
(***************************************************************************)
Required == {NAME, STATE_, REVENUES, PROFIT, EMPLOYEES}
NumericColumns == {REVENUES, PROFIT, EMPLOYEES}
Loaded == pc # "load"
HeaderNames == {Strip(csv.header[j]) : j \in DOMAIN csv.header}
\* the text of row i's cell in column c of the input file
CellText(i, c) ==
    csv.rows[i][CHOOSE j \in DOMAIN csv.header : Strip(csv.header[j]) = c]

\* upper case
UpperChar(c) == IF Code(c) >= Code("a") THEN Ascii[Code(c) - 26] ELSE c
Upper(t) == [i \in DOMAIN t |-> UpperChar(t[i])]
Canonical(t) == Upper(Strip(t))

\* how often x occurs in a sequence
Count(seq, x) == Cardinality({i \in DOMAIN seq : seq[i] = x})
SameRows(a, b) == \A x \in Range(a) \cup Range(b) : Count(a, x) = Count(b, x)

\* the sum of column c over the rows whose index is in S, a missing value
\* counting as 0
RECURSIVE RefSum(_, _, _)
RefSum(rows, S, c) ==
    IF S = {} THEN Zero
    ELSE LET i == CHOOSE k \in S : TRUE
         IN Add(FillNa0(rows[i][c]), RefSum(rows, S \ {i}, c))

TextLeq(a, b) == a = b \/ TextLess(a, b)

Descending(rows, c) ==
    \A i \in 1..(Len(rows) - 1) : Geq(rows[i][c], rows[i + 1][c])

TiesByName(rows, c) ==
    \A i \in 1..(Len(rows) - 1) :
        rows[i][c] = rows[i + 1][c] => TextLeq(rows[i][NAME].s, rows[i + 1][NAME].s)

\* C1: every loaded record whose EMPLOYEES is 0 has REVENUE_PER_EMPLOYEE
\* exactly 0, whatever its REVENUES.
C1_ZeroEmployeesGiveZero ==
    Loaded =>
        \A i \in DOMAIN df.rows :
            df.rows[i][EMPLOYEES] = Zero => df.rows[i][REVENUE_PER_EMPLOYEE] = Zero

\* C2: after load_data every input row is retained and its REVENUES, PROFIT
\* and EMPLOYEES are numbers, a missing or unparsable source value being 0.
C2_FieldsAreNumbers ==
    (Loaded /\ csv.exists) =>
        /\ Len(df.rows) = Len(csv.rows)
        /\ \A i \in DOMAIN df.rows : \A c \in NumericColumns :
             /\ IsNum(df.rows[i][c])
             /\ ~IsNum(ParseNumber(RemoveCommas(CellText(i, c))))
                    => df.rows[i][c] = Zero

\* C3: when a required column is absent from the input, the load fails
\* with a surfaced error naming the column, the caller receives no Dataset
\* and no later stage runs on a Dataset lacking the column.
C3_MissingColumnFailsLoad ==
    \A c \in Required :
        (Loaded /\ csv.exists /\ c \notin HeaderNames) =>
            /\ [where |-> "load", text |-> c] \in surfaced
            /\ df = EmptyFrame
            /\ overview = NoOverview
            /\ state_aggregates = EmptyFrame
            /\ insights = NoInsights
            /\ exported = EmptyFrame

\* C4: no interaction after the load changes the Dataset: it stays what
\* load_data returned, and the export tab writes the Dataset as loaded.
C4_DatasetNeverChanges ==
    /\ Loaded => df = load_data(csv).df
    /\ pc = "done" => exported = load_data(csv).df

\* C5: the state aggregation has exactly one entry per distinct STATE value
\* of the Dataset, and each entry's REVENUES, PROFIT and EMPLOYEES are the
\* sums of the field over all the records of that state.
C5_StateAggregateSums ==
    state_aggregates.columns # <<>> =>
        LET agg == state_aggregates.rows
            present == {v \in Range(Column(df, STATE_)) : ~IsNaN(v)}
        IN /\ {agg[g][STATE_] : g \in DOMAIN agg} = present
           /\ Len(agg) = Cardinality(present)
           /\ \A g \in DOMAIN agg : \A c \in NumericColumns :
                agg[g][c] =
                    RefSum(df.rows,
                           {i \in DOMAIN df.rows : df.rows[i][STATE_] = agg[g][STATE_]},
                           c)

\* C5 witness: an aggregate entry that sums two records, 1000 + 2,000
C5_Witness ==
    /\ state_aggregates.columns # <<>>
    /\ \E g \in DOMAIN state_aggregates.rows :
         /\ Cardinality({i \in DOMAIN df.rows :
                           df.rows[i][STATE_] = state_aggregates.rows[g][STATE_]}) = 2
         /\ state_aggregates.rows[g][REVENUES] = Num(3000, 1)

\* C6: after load every record's STATE is upper-cased and trimmed, so rows
\* whose STATE differs only in case or surrounding blanks share one
\* aggregate entry.
C6_StatesCanonical ==
    /\ Loaded =>
         \A i \in DOMAIN df.rows :
            df.rows[i][STATE_].k = "str" =>
                df.rows[i][STATE_].s = Canonical(df.rows[i][STATE_].s)
    /\ state_aggregates.columns # <<>> =>
         \A g, h \in DOMAIN state_aggregates.rows :
            Canonical(state_aggregates.rows[g][STATE_].s)
                = Canonical(state_aggregates.rows[h][STATE_].s) => g = h

\* C7: whenever the threshold query of the insights tab selects no record
\* (no value reaches the threshold, or the Dataset is empty), the tab
\* reports an empty result with zero statistics and raises nothing.
C7_EmptyResultIsReported ==
    (insights.metric # <<>> /\ (df.rows = <<>> \/ insights.branch = "empty")) =>
        /\ exc = "none"
        /\ insights.filtered_insights.rows = <<>>
        /\ insights.average_metric = Zero

\* C8: the threshold filter returns exactly the records whose metric is
\* >= the threshold, each once; filtering by EMPLOYEES >= 0 returns every
\* record of the Dataset.
C8_ThresholdFilterExact ==
    insights.branch # "none" =>
        /\ SameRows(insights.filtered_insights.rows,
                    AboveThreshold(df, insights.metric, insights.threshold).rows)
        /\ (insights.metric = EMPLOYEES /\ insights.threshold = 0)
              => SameRows(insights.filtered_insights.rows, df.rows)

C10_TiesByName ==
    insights.branch = "results" =>
        /\ Descending(insights.filtered_insights.rows, insights.metric)
        /\ TiesByName(insights.filtered_insights.rows, insights.metric)
        /\ Descending(insights.top_companies.rows, insights.metric)
        /\ TiesByName(insights.top_companies.rows, insights.metric)

====
